---- MODULE Spec2Model ----
(***************************************************************************)
(* Model of src/app.py: the aggregation run (main, check_existing_data,    *)
(* fetch_and_process_data) over the fuel_prices and fuel_prices_metadata   *)
(* tables, and the query endpoint GET /api/prices (get_prices).            *)
(*                                                                         *)
(* Time is a clock of ticks; datetime.now() is the clock, and              *)
(* datetime.now().date() is the clock divided by TicksPerDay.  The code    *)
(* reads the clock anew at every check, every fetch and the metadata       *)
(* insert, so the clock may tick between any two steps of a run.           *)
(*                                                                         *)
(* The store is taken as a primitive whose statements succeed and are      *)
(* visible as soon as they are executed.  A run is started again from      *)
(* "done" to stand for a restart of the process over the same database.    *)
(***************************************************************************)
EXTENDS Integers, Sequences, FiniteSets, TLC

\* ---------------------------------------------------------------- bounds
MaxClock == 3
TicksPerDay == 2
MaxRuns == 2

VARIABLES
    clock,                 \* datetime.now(), in ticks
    fuel_prices,           \* table fuel_prices: sequence of rows, in id order
    fuel_prices_metadata,  \* table fuel_prices_metadata: sequence of rows
    pc,                    \* position of main()
    i,                     \* index of the url the loop of main() is at
    data_frames,           \* main()'s list of non-empty data frames
    runs,                  \* number of runs of main() started so far
    run_start,             \* history: clock and tables when the run started
    run_log,               \* history: per url of this run, what happened
    request,               \* the GET /api/prices request the last step answered
    response               \* and its response

vars == <<clock, fuel_prices, fuel_prices_metadata, pc, i, data_frames, runs,
          run_start, run_log, request, response>>

\* ------------------------------------------------------------------ time
\* datetime.now().date()
Today(now) == now \div TicksPerDay

\* ------------------------------------------------------------------ JSON
\* The text of an object is its sequence of <<key, value>> pairs.
KeyOrder == <<"B7", "E10", "E5", "latitude", "longitude">>

RECURSIVE DumpKeys(_, _)
DumpKeys(obj, k) ==
    IF k > Len(KeyOrder) THEN <<>>
    ELSE (IF KeyOrder[k] \in DOMAIN obj
          THEN << <<KeyOrder[k], obj[KeyOrder[k]]>> >>
          ELSE <<>>) \o DumpKeys(obj, k + 1)

\* json.dumps of a mapping
JsonDumps(obj) == DumpKeys(obj, 1)

\* json.loads of the text of a mapping
JsonLoads(text) ==
    [k \in {text[n][1] : n \in DOMAIN text} |->
        (CHOOSE p \in {text[n] : n \in DOMAIN text} : p[1] = k)[2]]

\* dict.get(key) with the default None
Null == "null"
DictGet(d, k) == IF k \in DOMAIN d THEN d[k] ELSE Null

\* ----------------------------------------------------------------- feeds
urls == <<"tesco", "asda">>

Station(url) ==
    IF url = "tesco"
    THEN [site_id |-> "t1", brand |-> "Tesco", address |-> "1 High St",
          postcode |-> <<"S", "W", "1">>,
          location |-> [latitude |-> "51.5", longitude |-> "-0.1"],
          prices |-> [E10 |-> "1.45", E5 |-> "1.55", B7 |-> "1.50"]]
    ELSE [site_id |-> "a1", brand |-> "Asda", address |-> "2 Low Rd",
          postcode |-> <<"E", "2">>,
          location |-> [latitude |-> "53.8", longitude |-> "-1.5"],
          prices |-> [E10 |-> "1.40", B7 |-> "1.48"]]

\* a record without the location and prices keys
BareStation(url) == [site_id |-> Station(url).site_id, brand |-> Station(url).brand]

BrandOf(url) == Station(url).brand

HttpResponse(err, ct, kind, has, recs) ==
    [error |-> err, content_type |-> ct,
     body |-> [kind |-> kind, has_stations |-> has, records |-> recs]]

\* What requests.get(url) may come back with.
Responses(url) ==
    { HttpResponse(TRUE, "", "none", FALSE, <<>>),
      HttpResponse(FALSE, "text/html", "malformed", FALSE, <<>>),
      HttpResponse(FALSE, "application/json", "malformed", FALSE, <<>>),
      HttpResponse(FALSE, "application/json", "object", TRUE, <<Station(url)>>),
      HttpResponse(FALSE, "text/plain; charset=utf-8", "object", TRUE, <<Station(url)>>),
      HttpResponse(FALSE, "application/json", "array", FALSE, <<Station(url)>>),
      HttpResponse(FALSE, "application/json", "object", FALSE, <<>>),
      HttpResponse(FALSE, "application/json", "object", TRUE, <<BareStation(url)>>),
      HttpResponse(FALSE, "application/json", "object", TRUE, <<>>) }

\* --------------------------------------------------------------- fetcher
\* 'application/json' in ct or 'text/plain' in ct
AcceptedContentType(ct) ==
    ct \in {"application/json", "text/plain; charset=utf-8"}

\* df[column] exists when some record has the key
HasColumn(recs, column) == \E n \in DOMAIN recs : column \in DOMAIN recs[n]

\* lines 67-70: the data frame of the records, location and prices dumped,
\* the date column set to the current date
Normalize(recs, now) ==
    [n \in DOMAIN recs |->
        [site_id |-> recs[n].site_id, brand |-> recs[n].brand,
         address |-> recs[n].address, postcode |-> recs[n].postcode,
         location |-> JsonDumps(recs[n].location),
         prices |-> JsonDumps(recs[n].prices),
         date |-> Today(now)]]

Failed(what) == [df |-> <<>>, printed |-> what]

\* fetch_and_process_data(url), given what requests.get returned and the
\* clock at line 70: the data frame returned and the message printed
fetch_and_process_data(resp, now) ==
    IF resp.error THEN Failed("error")
    ELSE IF ~AcceptedContentType(resp.content_type)
    THEN Failed("unexpected_content_type")
    ELSE IF resp.body.kind \notin {"object", "array"}
    THEN Failed("error")                       \* response.json() raises
    ELSE IF resp.body.kind = "array"
    THEN Failed("error")                       \* a list has no .get
    ELSE IF ~resp.body.has_stations
    THEN Failed("error")                       \* DataFrame of a dict of scalars
    ELSE IF ~HasColumn(resp.body.records, "location")
            \/ ~HasColumn(resp.body.records, "prices")
    THEN Failed("error")                       \* KeyError
    ELSE [df |-> Normalize(resp.body.records, now), printed |-> "fetched"]

\* ----------------------------------------------------------------- store
\* SELECT ... WHERE date = d
RowsDated(rows, d) == SelectSeq(rows, LAMBDA r : r.date = d)

\* check_existing_data as it would be if it never found a row
check_existing_data_never(url, now) == FALSE

\* check_existing_data(conn, url): the url is not used
check_existing_data(url, now) == Len(RowsDated(fuel_prices, Today(now))) > 0

RECURSIVE Concat(_)
\* pd.concat(data_frames, ignore_index=True)
Concat(dfs) == IF dfs = <<>> THEN <<>> ELSE Head(dfs) \o Concat(Tail(dfs))

\* ------------------------------------------------------------------ main
NoRequest == [postcode |-> <<>>, filters |-> ""]
NoResponse == [status |-> 0, body |-> <<>>]

\* No request is being answered: request and response hold the exchange of
\* the last step when that step was a request, and nothing otherwise.
Idle == request' = NoRequest /\ response' = NoResponse

Init ==
    /\ clock = 0
    /\ fuel_prices = <<>>
    /\ fuel_prices_metadata = <<>>
    /\ pc = "idle"
    /\ i = 1
    /\ data_frames = <<>>
    /\ runs = 0
    /\ run_start = [clock |-> 0, rows |-> 0, meta |-> <<>>]
    /\ run_log = <<>>
    /\ request = NoRequest
    /\ response = NoResponse

\* time passes
Tick ==
    /\ clock < MaxClock
    /\ clock' = clock + 1
    /\ UNCHANGED <<fuel_prices, fuel_prices_metadata, pc, i, data_frames, runs,
                   run_start, run_log>>
    /\ Idle

\* main() is entered: data_frames = []
MainStart ==
    /\ pc \in {"idle", "done"}
    /\ runs < MaxRuns
    /\ runs' = runs + 1
    /\ pc' = "check"
    /\ i' = 1
    /\ data_frames' = <<>>
    /\ run_start' = [clock |-> clock, rows |-> Len(fuel_prices),
                     meta |-> fuel_prices_metadata]
    /\ run_log' = <<>>
    /\ UNCHANGED <<clock, fuel_prices, fuel_prices_metadata>>
    /\ Idle

\* lines 89-91: the has-today check of the url the loop is at
MainCheck ==
    /\ pc = "check"
    /\ i <= Len(urls)
    /\ IF check_existing_data(urls[i], clock)
       THEN /\ i' = i + 1
            /\ pc' = "check"
            /\ run_log' = Append(run_log,
                  [url |-> urls[i], event |-> "skipped", day |-> Today(clock),
                   resp |-> HttpResponse(TRUE, "", "none", FALSE, <<>>),
                   df |-> <<>>])
       ELSE /\ pc' = "fetch"
            /\ UNCHANGED <<i, run_log>>
    /\ UNCHANGED <<clock, fuel_prices, fuel_prices_metadata, data_frames, runs,
                   run_start>>
    /\ Idle

\* lines 92-94: the fetch of the url the loop is at, requests.get answering
\* with one of answers
MainFetchOf(answers) ==
    /\ pc = "fetch"
    /\ \E resp \in answers :
          LET got == fetch_and_process_data(resp, clock) IN
          /\ data_frames' = IF got.df # <<>> THEN Append(data_frames, got.df)
                            ELSE data_frames
          /\ run_log' = Append(run_log,
                [url |-> urls[i], event |-> got.printed, day |-> Today(clock),
                 resp |-> resp, df |-> got.df])
    /\ i' = i + 1
    /\ pc' = "check"
    /\ UNCHANGED <<clock, fuel_prices, fuel_prices_metadata, runs, run_start>>
    /\ Idle

\* the fetch as it would be if a failed fetch ended the loop
MainFetchAborting ==
    /\ pc = "fetch"
    /\ \E resp \in Responses(urls[i]) :
          LET got == fetch_and_process_data(resp, clock) IN
          /\ data_frames' = IF got.df # <<>> THEN Append(data_frames, got.df)
                            ELSE data_frames
          /\ run_log' = Append(run_log,
                [url |-> urls[i], event |-> got.printed, day |-> Today(clock),
                 resp |-> resp, df |-> got.df])
          /\ i' = IF got.df # <<>> THEN i + 1 ELSE Len(urls) + 1
    /\ pc' = "check"
    /\ UNCHANGED <<clock, fuel_prices, fuel_prices_metadata, runs, run_start>>
    /\ Idle

MainFetch == MainFetchOf(Responses(urls[i]))

\* lines 95-97: the bulk append of a non-empty batch
MainAppend ==
    /\ pc = "check"
    /\ i > Len(urls)
    /\ data_frames # <<>>
    /\ fuel_prices' = fuel_prices \o Concat(data_frames)
    /\ pc' = "meta_delete"
    /\ UNCHANGED <<clock, fuel_prices_metadata, i, data_frames, runs, run_start,
                   run_log>>
    /\ Idle

\* line 98 as it would be if the delete were left out
MainMetaDeleteSkipped ==
    /\ pc = "meta_delete"
    /\ pc' = "meta_insert"
    /\ UNCHANGED <<clock, fuel_prices, fuel_prices_metadata, i, data_frames, runs,
                   run_start, run_log>>
    /\ Idle

\* line 98
MainMetaDelete ==
    /\ pc = "meta_delete"
    /\ fuel_prices_metadata' = <<>>
    /\ pc' = "meta_insert"
    /\ UNCHANGED <<clock, fuel_prices, i, data_frames, runs, run_start, run_log>>
    /\ Idle

\* line 99
MainMetaInsert ==
    /\ pc = "meta_insert"
    /\ fuel_prices_metadata' =
          Append(fuel_prices_metadata, [last_updated |-> clock])
    /\ pc' = "done"
    /\ UNCHANGED <<clock, fuel_prices, i, data_frames, runs, run_start, run_log>>
    /\ Idle

\* lines 100-101 as they would be if the metadata were replaced by every run
MainNoDataReplacesMetadata ==
    /\ pc = "check"
    /\ i > Len(urls)
    /\ data_frames = <<>>
    /\ pc' = "meta_delete"
    /\ UNCHANGED <<clock, fuel_prices, fuel_prices_metadata, i, data_frames, runs,
                   run_start, run_log>>
    /\ Idle

\* lines 100-101: nothing to insert
MainNoData ==
    /\ pc = "check"
    /\ i > Len(urls)
    /\ data_frames = <<>>
    /\ pc' = "done"
    /\ UNCHANGED <<clock, fuel_prices, fuel_prices_metadata, i, data_frames, runs,
                   run_start, run_log>>
    /\ Idle

\* ----------------------------------------------------------------- query
\* str.lower() of one character
Lower(c) ==
    CASE c = "S" -> "s"
      [] c = "W" -> "w"
      [] c = "E" -> "e"
      [] OTHER -> c

\* re.compile(pat) succeeds: of the characters used here only an unclosed
\* "(" makes a pattern that does not compile
RegexCompiles(pat) == \A n \in DOMAIN pat : pat[n] # "("

\* the compiled pattern matches s at offset off, ignoring case: "." matches
\* any character, every other character matches itself
RegexMatchAt(pat, s, off) ==
    \A n \in DOMAIN pat :
        \/ pat[n] = "."
        \/ Lower(pat[n]) = Lower(s[off + n - 1])

\* Series.str.contains(pat, case=False) on one value: regex=True is the default
StrContains(s, pat) ==
    \E off \in 1..(Len(s) - Len(pat) + 1) : RegexMatchAt(pat, s, off)

\* The values of the filters parameter that requests carry here.
FilterTexts ==
    { "{}",
      "{\"diesel\": false}",
      "{\"unleaded\": false, \"superUnleaded\": true}",
      "{\"superUnleaded\": null, \"diesel\": 1}",
      "{bad",
      "[]" }

Parsed(ok, kind, value) == [ok |-> ok, kind |-> kind, value |-> value]

\* json.loads(fuel_types) on those texts: a JSON scalar is kept as its text
JsonLoadsFilters(text) ==
    CASE text = "{}" -> Parsed(TRUE, "object", <<>>)
      [] text = "{\"diesel\": false}" ->
            Parsed(TRUE, "object", "diesel" :> "false")
      [] text = "{\"unleaded\": false, \"superUnleaded\": true}" ->
            Parsed(TRUE, "object", "unleaded" :> "false" @@ "superUnleaded" :> "true")
      [] text = "{\"superUnleaded\": null, \"diesel\": 1}" ->
            Parsed(TRUE, "object", "superUnleaded" :> "null" @@ "diesel" :> "1")
      [] text = "[]" -> Parsed(TRUE, "array", <<>>)
      [] OTHER -> Parsed(FALSE, "none", <<>>)

\* the truth value Python gives a JSON scalar
Truthy(v) == v \notin {"false", "null", "0"}

\* filters.get as it would be if the flag were not looked at
FilterFlagIgnored(filters, key) == TRUE

\* filters.get(key, True), as a truth value
FilterFlag(filters, key) ==
    IF key \in DOMAIN filters THEN Truthy(filters[key]) ELSE TRUE

\* lines 119-127: one row of the answer
StationData(row, filters) ==
    LET prices == JsonLoads(row.prices) IN
    [brand |-> row.brand, address |-> row.address, postcode |-> row.postcode,
     unleaded |-> IF FilterFlag(filters, "unleaded")
                  THEN DictGet(prices, "E10") ELSE Null,
     superUnleaded |-> IF FilterFlag(filters, "superUnleaded")
                       THEN DictGet(prices, "E5") ELSE Null,
     diesel |-> IF FilterFlag(filters, "diesel")
                THEN DictGet(prices, "B7") ELSE Null]

\* lines 114-115
PostcodeFilter(df, postcode) ==
    IF postcode # <<>>
    THEN SelectSeq(df, LAMBDA r : StrContains(r.postcode, postcode))
    ELSE df

HttpError(status) == [status |-> status, body |-> <<>>]

\* get_prices(), given the rows the SELECT of line 110 returned: an exception
\* no handler catches is answered 500 by the framework
get_prices(postcode, fuel_types, loaded) ==
    LET parsed == JsonLoadsFilters(fuel_types) IN
    IF ~parsed.ok THEN HttpError(500)               \* json.loads raises
    ELSE IF postcode # <<>> /\ ~RegexCompiles(postcode)
    THEN HttpError(500)                             \* re.error
    ELSE LET df == PostcodeFilter(loaded, postcode) IN
         IF df # <<>> /\ parsed.kind # "object"
         THEN HttpError(500)                        \* a list has no .get
         ELSE [status |-> 200,
               body |-> [n \in DOMAIN df |-> StationData(df[n], parsed.value)]]

\* The values of the postcode parameter that requests carry here.
Postcodes ==
    { <<>>, <<"s", "w">>, <<"W", "1">>, <<"s", ".", "1">>, <<"x">>, <<"(">> }

\* GET /api/prices
GetPrices ==
    /\ \E postcode \in Postcodes, fuel_types \in FilterTexts :
          /\ request' = [postcode |-> postcode, filters |-> fuel_types]
          /\ response' = get_prices(postcode, fuel_types,
                                    RowsDated(fuel_prices, Today(clock)))
    /\ UNCHANGED <<clock, fuel_prices, fuel_prices_metadata, pc, i, data_frames,
                   runs, run_start, run_log>>

Next ==
    \/ Tick
    \/ MainStart
    \/ MainCheck
    \/ MainFetch
    \/ MainAppend
    \/ MainMetaDelete
    \/ MainMetaInsert
    \/ MainNoData

Spec == Init /\ [][Next]_vars

\* The endpoint beside the aggregation run, the feeds either answering with
\* their stations or not answering.
PlainResponses(url) ==
    { HttpResponse(TRUE, "", "none", FALSE, <<>>),
      HttpResponse(FALSE, "application/json", "object", TRUE, <<Station(url)>>) }

MainFetchPlain == MainFetchOf(PlainResponses(urls[i]))

QueryNext ==
    \/ Tick
    \/ MainStart
    \/ MainCheck
    \/ MainFetchPlain
    \/ MainAppend
    \/ MainMetaDelete
    \/ MainMetaInsert
    \/ MainNoData
    \/ GetPrices

QuerySpec == Init /\ [][QueryNext]_vars

\* ---------------------------------------------------------------- claims
\* the rows the table held when the run started
RowsAtStart == SubSeq(fuel_prices, 1, run_start.rows)

\* the rows the run has appended
RowsAppended == SubSeq(fuel_prices, run_start.rows + 1, Len(fuel_prices))

\* the number of rows of a brand dated d
CountOf(rows, brand, d) ==
    Len(SelectSeq(rows, LAMBDA r : r.brand = brand /\ r.date = d))

\* the run started on the day it is now
RunWithinDay == Today(run_start.clock) = Today(clock)

\* the loop of main() is over
LoopOver ==
    \/ pc = "check" /\ i > Len(urls)
    \/ pc \in {"meta_delete", "meta_insert", "done"}

\* C1: a run that stays within one calendar day appends no row dated today
\* for a source that already had rows dated today when the run started: the
\* number of today's rows of that source is as it was at the start.
C1_Idempotent ==
    RunWithinDay =>
        \A n \in DOMAIN urls :
            CountOf(RowsAtStart, BrandOf(urls[n]), Today(clock)) > 0 =>
                CountOf(fuel_prices, BrandOf(urls[n]), Today(clock))
                    = CountOf(RowsAtStart, BrandOf(urls[n]), Today(clock))

\* a second run, on the day of a first run that added rows, is over
C1_Witness ==
    /\ runs = 2
    /\ pc = "done"
    /\ RunWithinDay
    /\ \E n \in DOMAIN urls :
          CountOf(RowsAtStart, BrandOf(urls[n]), Today(clock)) > 0
    /\ \A n \in DOMAIN run_log : run_log[n].event = "skipped"

\* the fetch failed in one of the ways named: no answer, a content type that
\* is not accepted, a body that is not JSON, records without location/prices
FetchFailure(resp) ==
    \/ resp.error
    \/ resp.content_type \notin {"application/json", "text/plain; charset=utf-8"}
    \/ resp.body.kind = "malformed"
    \/ /\ resp.body.kind = "object"
       /\ resp.body.has_stations
       /\ \E n \in DOMAIN resp.body.records :
             {"location", "prices"} \cap DOMAIN resp.body.records[n] = {}

RECURSIVE FetchedRows(_)
\* the rows of the urls the log says were fetched, in the order of the log
FetchedRows(log) ==
    IF log = <<>> THEN <<>>
    ELSE (IF Head(log).event = "fetched" THEN Head(log).df ELSE <<>>)
         \o FetchedRows(Tail(log))

StationRecords(recs) ==
    /\ recs # <<>>
    /\ \A n \in DOMAIN recs : {"location", "prices"} \subseteq DOMAIN recs[n]

\* C3: with an accepted content type, a body that is a mapping with a
\* stations key contributes the records under that key, and a body that is a
\* bare array of station records contributes the records of the array.
C3_RecordExtraction ==
    \A n \in DOMAIN run_log :
        LET e == run_log[n] IN
        (/\ e.event # "skipped"
         /\ ~e.resp.error
         /\ e.resp.content_type \in {"application/json", "text/plain; charset=utf-8"}
         /\ StationRecords(e.resp.body.records)
         /\ \/ e.resp.body.kind = "object" /\ e.resp.body.has_stations
            \/ e.resp.body.kind = "array")
        => /\ Len(e.df) = Len(e.resp.body.records)
           /\ \A k \in DOMAIN e.df :
                 e.df[k].site_id = e.resp.body.records[k].site_id

\* a request has been answered in the last step
Answered == response # NoResponse

\* the rows of today, which the request of the last step loaded
Loaded == RowsDated(fuel_prices, Today(clock))

\* C4: a request whose filters parameter is not well-formed JSON is answered
\* with a client error (4xx), whatever the store holds.
C4_MalformedFiltersClientError ==
    (Answered /\ ~JsonLoadsFilters(request.filters).ok) =>
        response.status \in 400..499

\* q is a substring of s, letter case ignored, every character standing
\* for itself
LiteralContains(s, q) ==
    \E off \in 1..(Len(s) - Len(q) + 1) :
        \A n \in DOMAIN q : Lower(q[n]) = Lower(s[off + n - 1])

\* C5: with a non-empty postcode the answer is 200 with exactly the rows of
\* today whose postcode contains it as a literal, case-insensitive substring
\* (the empty array when there is none); with an empty postcode it is every
\* row of today.
C5_PostcodeLiteralSubstring ==
    (Answered /\ request.filters = "{}") =>
        /\ response.status = 200
        /\ LET kept == IF request.postcode = <<>> THEN Loaded
                       ELSE SelectSeq(Loaded,
                              LAMBDA r : LiteralContains(r.postcode, request.postcode))
           IN /\ Len(response.body) = Len(kept)
              /\ \A n \in DOMAIN kept :
                    /\ response.body[n].brand = kept[n].brand
                    /\ response.body[n].postcode = kept[n].postcode

\* the price a stored row holds for a fuel grade, null when it holds none
PriceOf(row, grade) ==
    LET ps == {row.prices[n] : n \in DOMAIN row.prices} IN
    IF \E p \in ps : p[1] = grade
    THEN (CHOOSE p \in ps : p[1] = grade)[2]
    ELSE Null

\* the output fields, each with the grade it shows
FieldGrade == [unleaded |-> "E10", superUnleaded |-> "E5", diesel |-> "B7"]

\* C6: in every row of a 200 answer, each of unleaded, superUnleaded and
\* diesel is the row's E10, E5 and B7 price when its own filter key is
\* absent or true, and null when that key is false, whatever the other keys.
C6_FuelTypeMapping ==
    (Answered /\ response.status = 200) =>
        LET filters == JsonLoadsFilters(request.filters).value
            df == PostcodeFilter(Loaded, request.postcode)
        IN /\ Len(response.body) = Len(df)
           /\ \A n \in DOMAIN df : \A field \in DOMAIN FieldGrade :
                 /\ (field \notin DOMAIN filters \/ filters[field] = "true") =>
                       response.body[n][field] = PriceOf(df[n], FieldGrade[field])
                 /\ (field \in DOMAIN filters /\ filters[field] = "false") =>
                       response.body[n][field] = Null

\* a request with diesel switched off got a row with its two petrol prices
\* and no diesel price, though the row holds one
C6_Witness ==
    /\ Answered
    /\ response.status = 200
    /\ request.filters = "{\"diesel\": false}"
    /\ \E n \in DOMAIN response.body :
          /\ response.body[n].diesel = Null
          /\ response.body[n].unleaded = "1.45"
          /\ response.body[n].superUnleaded = "1.55"

C8_EmptyBatchNoOp ==
    /\ (pc = "done" /\ data_frames = <<>>) =>
          /\ RowsAppended = <<>>
          /\ fuel_prices_metadata = run_start.meta
    /\ fuel_prices_metadata # run_start.meta =>
          /\ pc \in {"meta_insert", "done"}
          /\ data_frames # <<>>
          /\ RowsAppended = Concat(data_frames)

\* a run over non-empty tables is over, every url skipped or failed
C8_Witness ==
    /\ pc = "done"
    /\ data_frames = <<>>
    /\ Len(run_log) = Len(urls)
    /\ run_start.rows > 0
    /\ Len(run_start.meta) = 1
    /\ \E n \in DOMAIN run_log : run_log[n].event = "error"

\* C9: every row a run has normalized carries the date of the day the run
\* started on, and every has-today check of the run compared against that
\* day.
C9_RunDateConsistency ==
    /\ \A n \in DOMAIN run_log : run_log[n].day = Today(run_start.clock)
    /\ \A n \in DOMAIN data_frames : \A k \in DOMAIN data_frames[n] :
          data_frames[n][k].date = Today(run_start.clock)

\* C10: a run that starts on a day for which the table already holds a row
\* skips every url: it fetches nothing, appends nothing and leaves the
\* metadata alone.
C10_DateOnlySkipsAll ==
    (pc # "idle" /\ RowsDated(RowsAtStart, Today(run_start.clock)) # <<>>) =>
        /\ pc # "fetch"
        /\ \A n \in DOMAIN run_log : run_log[n].event = "skipped"
        /\ RowsAppended = <<>>
        /\ fuel_prices_metadata = run_start.meta
====
